---- MODULE Spec2Model ----
(***************************************************************************)
(* Capture-request orchestration of lookyloo:                              *)
(*   bin/async_capture.py          AsyncCapture  (queue consumer,          *)
(*                                 SSRF guard, dispatcher, artifact store) *)
(*   bin/background_processing.py  Processing    (reconciliation loop)     *)
(* The shared Redis store, the filesystem, the rendering backend and the   *)
(* submission backend (lacus) are the environment.  Every Redis round trip *)
(* (every await on self.redis, every call on self.lookyloo.redis) is one   *)
(* atomic step; computation local to a process is folded into the step     *)
(* that precedes it.                                                       *)
(***************************************************************************)
EXTENDS Integers, Sequences, FiniteSets, TLC

\* ------------------------------------------------------------------ bounds
NumConsumers == 2
NumJobs == 2
NumBuckets == 1
MaxTime == 2

Consumers == 1..NumConsumers
\* A job identifier is its rank in the order of the sorted set 'to_capture'
\* (score, then member): a larger identifier is popped and scanned first.
Jobs == 1..NumJobs
Buckets == 1..NumBuckets
\* datetime.now() as the directory name: one directory per clock value.
Dirs == 1..MaxTime

NoJob == 0
NoQueue == 0
NoDir == 0
\* Python's None for an optional string.
None == "None"

\* ------------------------------------------------------------ hash records
\* A Redis hash / Python dict: a function from the fields present to values.
\* HGETALL of a missing key is the empty dict.
EmptyRec == [f \in {} |-> ""]

\* dict.get(field): truthy when the field is present and not empty.
Truthy(rec, f) == f \in DOMAIN rec /\ rec[f] # ""

\* rec with field f removed (HDEL, or building a dict without a field).
Without(rec, f) == [g \in DOMAIN rec \ {f} |-> rec[g]]

\* --------------------------------------------------------------------- URLs
\* A URL string is [starts, sep, auth]: what the text starts with ("data",
\* "file", "http", "hxxp", or "other" for anything else), whether "//" follows
\* the scheme, and the text at the place of the authority.  The empty string
\* is EmptyUrl.
EmptyUrl == [starts |-> "", sep |-> FALSE, auth |-> ""]

Authorities == {"", ":80", "example.com", "10.0.0.1", "abcdef.onion", "nx.invalid"}

Urls ==
  {[starts |-> s, sep |-> TRUE, auth |-> a] :
      s \in {"data", "file", "http", "hxxp"}, a \in Authorities}
  \cup {[starts |-> s, sep |-> FALSE, auth |-> ""] : s \in {"data", "file", "http"}}
  \cup {[starts |-> "other", sep |-> FALSE, auth |-> a] : a \in Authorities \ {""}}

\* The 'url' field of a record is truthy when it is not the empty string.
HasUrl(rec) == "url" \in DOMAIN rec /\ rec["url"] # EmptyUrl

\* refang(url): a defanged scheme is restored.
Refang(u) == IF u.starts = "hxxp" THEN [u EXCEPT !.starts = "http"] ELSE u

StartsWith(u, prefix) == u.starts = prefix

\* url = f'http://{url}' unless the url starts with data, http or file: the
\* whole former text now follows "http://".
AddScheme(u) ==
  IF ~StartsWith(u, "data") /\ ~StartsWith(u, "http") /\ ~StartsWith(u, "file")
    THEN [starts |-> "http", sep |-> TRUE, auth |-> u.auth]
    ELSE u

\* url.strip(); refang(url); scheme prefix.
NormalizeUrl(u) == AddScheme(Refang(u))

\* urlsplit(url).netloc: the authority, present only after "//".
Netloc(u) == IF u.sep THEN u.auth ELSE ""

\* urlsplit(url).hostname: None when the netloc holds no host.
Hostname(u) ==
  CASE Netloc(u) = "" -> None
    [] Netloc(u) = ":80" -> None
    [] OTHER -> Netloc(u)

\* hostname.split('.')[-1]
LastLabel(h) ==
  CASE h = "abcdef.onion" -> "onion"
    [] h = "example.com" -> "com"
    [] h = "nx.invalid" -> "invalid"
    [] h = "10.0.0.1" -> "1"
    [] OTHER -> h

IsOnion(u) == Hostname(u) # None /\ LastLabel(Hostname(u)) = "onion"

\* socket.gethostbyname(hostname): an address, or "gaierror".
GetHostByName(h) ==
  CASE h = "example.com" -> "93.184.216.34"
    [] h = "10.0.0.1" -> "10.0.0.1"
    [] OTHER -> "gaierror"

\* ipaddress.ip_address(ip).is_global
IsGlobal(ip) == ip = "93.184.216.34"

\* ----------------------------------------------------------- configuration
TorProxy == "socks5://127.0.0.1:9050"

\* ------------------------------------------------------------ record codec
\* bytes.lower() on the values a listing field takes here.
Lower(v) ==
  CASE v = "FALSE" -> "false"
    [] v = "True" -> "true"
    [] OTHER -> v

ListingValues == {"false", "FALSE", "0", "", "true", "True", "1", "maybe"}

\* The listing decision with the public default whatever the configuration.
ListingPublic(rec, default_public) ==
  IF "listing" \in DOMAIN rec /\ Lower(rec["listing"]) \in {"false", "0", ""}
    THEN FALSE ELSE TRUE

\* The listing decision of process_capture_queue.
Listing(rec, default_public) ==
  IF default_public
    THEN IF "listing" \in DOMAIN rec /\ Lower(rec["listing"]) \in {"false", "0", ""}
           THEN FALSE ELSE TRUE
    ELSE IF "listing" \in DOMAIN rec /\ Lower(rec["listing"]) \in {"true", "1"}
           THEN TRUE ELSE FALSE

\* Which branch of the target selection the record takes.
TargetKind(rec) ==
  IF Truthy(rec, "document") THEN "document"
  ELSE IF HasUrl(rec) THEN "url"
  ELSE "none"

\* The url of an uploaded document: f'file://{tmp_f.name}'.
TmpFileUrl == [starts |-> "file", sep |-> TRUE, auth |-> ""]

\* proxy=to_capture[b'proxy'].decode() if to_capture.get(b'proxy') else None
JobProxy(rec) == IF Truthy(rec, "proxy") THEN rec["proxy"] ELSE None

\* --------------------------------------------------------------- SSRF guard
\* The guard of _capture on the normalized url: "" when the capture may go
\* on, or the message of the denial.
NeedsResolve(u, only_global) ==
  /\ only_global
  /\ ~(StartsWith(u, "data") \/ StartsWith(u, "file"))
  /\ Netloc(u) # ""
  /\ Hostname(u) # None
  /\ LastLabel(Hostname(u)) # "onion"

\* The guard without the test of the resolved address.
GuardVerdictUnchecked(u, only_global) ==
  IF ~only_global THEN ""
  ELSE IF StartsWith(u, "data") \/ StartsWith(u, "file") THEN ""
  ELSE IF Netloc(u) = "" THEN "Unable to find hostname or IP in the query."
  ELSE IF NeedsResolve(u, only_global) /\ GetHostByName(Hostname(u)) = "gaierror"
    THEN "Name or service not known."
  ELSE ""

GuardVerdict(u, only_global) ==
  IF ~only_global THEN ""
  ELSE IF StartsWith(u, "data") \/ StartsWith(u, "file") THEN ""
  ELSE IF Netloc(u) # ""
    THEN IF NeedsResolve(u, only_global)
           THEN IF GetHostByName(Hostname(u)) = "gaierror"
                  THEN "Name or service not known."
                ELSE IF ~IsGlobal(GetHostByName(Hostname(u)))
                  THEN "Capturing ressources on private IPs is disabled."
                ELSE ""
           ELSE ""
  ELSE "Unable to find hostname or IP in the query."

\* The session proxy without the onion test.
SessionProxyKeep(u, proxy) == proxy

\* The proxy the session is opened with ("check if onion").
SessionProxy(u, proxy) ==
  IF proxy = None /\ Netloc(u) # "" /\ Hostname(u) # None
       /\ LastLabel(Hostname(u)) = "onion"
    THEN TorProxy
    ELSE proxy

\* ------------------------------------------------------- artifact bundles
\* The bundle capture_page returns: a dict; a value "" is an empty (falsy)
\* value, "x" a non-empty one.
BundleFields == {"har", "png", "html", "last_redirected_url", "cookies",
                 "downloaded_filename", "downloaded_file", "error"}

\* What the backend does with a job: raise PlaywrightCaptureException, raise
\* any other exception, or return a bundle.
Raises(kind) == [kind |-> kind, entries |-> EmptyRec]
Returns(entries) == [kind |-> "bundle", entries |-> entries]

\* The persistence with the pointer registered before the content files.
PointerFirstOrder == <<"meta", "uuid", "no_index", "parent", "0.data.filename",
                       "0.data", "error.txt", "har?", "lookup_dirs", "0.har",
                       "0.png", "0.html", "0.last_redirect.txt",
                       "0.cookies.json">>

\* The steps of the persistence, in the order of the code.
\* "har?" is the test for a bundle without HAR, "lookup_dirs" the HSET of the
\* uuid -> directory pointer.
PersistOrder == <<"meta", "uuid", "no_index", "parent", "0.data.filename",
                  "0.data", "error.txt", "har?", "0.har", "0.png", "0.html",
                  "0.last_redirect.txt", "0.cookies.json", "lookup_dirs">>

\* Whether the step writes its file, for job record rec (the keyword
\* arguments of _capture), listing decision and bundle entries.
Writes(step, rec, listing, entries) ==
  CASE step = "meta" -> Truthy(rec, "os") \/ Truthy(rec, "browser")
    [] step = "uuid" -> TRUE
    [] step = "no_index" -> ~listing
    [] step = "parent" -> Truthy(rec, "parent")
    [] step = "0.data.filename" -> Truthy(entries, "downloaded_filename")
    [] step = "0.data" -> Truthy(entries, "downloaded_file")
    [] step = "error.txt" -> "error" \in DOMAIN entries
    [] step = "0.har" -> TRUE
    [] step = "0.png" -> Truthy(entries, "png")
    [] step = "0.html" -> Truthy(entries, "html")
    [] step = "0.last_redirect.txt" -> Truthy(entries, "last_redirected_url")
    [] step = "0.cookies.json" -> Truthy(entries, "cookies")
    [] OTHER -> FALSE

\* ------------------------------------------------------------------- state
VARIABLES
  to_capture,   \* sorted set 'to_capture': the pending job identifiers
  mgmt,         \* key '<uuid>_mgmt': the bucket a job is charged to
  ongoing,      \* set 'ongoing'
  records,      \* hash '<uuid>': the job record
  queues,       \* sorted set 'queues': in-flight counter of each bucket
  errors,       \* key 'error_<uuid>' ("" when absent or expired)
  lookup_dirs,  \* hash 'lookup_dirs': uuid -> directory
  fs,           \* capture directories: created, files, content of 'uuid'
  cs,           \* the consumers: position and local variables
  rc,           \* the reconciliation loop: position and local variables
  status,       \* backend: get_capture_status(uuid)
  accepts,      \* backend: whether enqueue(uuid) succeeds
  plan,         \* backend: what the capture of a job yields
  config,       \* get_config: only_global_lookups, default_public
  shutdown,     \* shutdown_requested()
  log           \* history: the operations performed so far

storeVars == <<to_capture, mgmt, ongoing, records, queues, errors, lookup_dirs>>
envVars == <<status, accepts, plan, config, shutdown>>
vars == <<to_capture, mgmt, ongoing, records, queues, errors, lookup_dirs, fs,
          cs, rc, status, accepts, plan, config, shutdown, log>>

\* The local variables of a consumer outside process_capture_queue.
IdleLocals(pc) ==
  [pc |-> pc, uuid |-> NoJob, queue |-> NoQueue, to_capture |-> EmptyRec,
   listing |-> FALSE, url |-> EmptyUrl, proxy |-> None, entries |-> EmptyRec,
   success |-> FALSE, error_message |-> "", dirpath |-> NoDir, w |-> 0,
   decrement |-> FALSE]

\* The local variables of the reconciliation loop between two passes.
\* scan and i: the identifiers of the pass and the place in them; probes: the
\* answers of get_capture_status for the current identifier; done: what the
\* pass has seen and done so far, by identifier.
IdleRecon ==
  [pc |-> "idle", scan |-> <<>>, i |-> 0, retry |-> 0, query |-> EmptyRec,
   probes |-> <<>>, done |-> {}]

NoDirectory == [created |-> FALSE, files |-> {}, uuid |-> NoJob]

\* The states the model starts from.  p.pending: the jobs queued; p.shapes:
\* their records; p.charges: the bucket bookkeeping [mgmt, queues] of the
\* front end; p.plans, p.statuses, p.acceptances: the behaviour of the
\* backends; p.configs: the configuration.
InitWith(p) ==
  /\ to_capture = p.pending
  /\ \E ch \in p.charges : mgmt = ch.mgmt /\ queues = ch.queues
  /\ \A j \in Jobs \ p.pending : mgmt[j] = NoQueue
  /\ ongoing = {}
  /\ records \in [Jobs -> p.shapes \cup {EmptyRec}]
  /\ \A j \in Jobs : (records[j] = EmptyRec) <=> (j \notin p.pending)
  /\ errors = [j \in Jobs |-> ""]
  /\ lookup_dirs = [j \in Jobs |-> NoDir]
  /\ fs = [d \in Dirs |-> NoDirectory]
  /\ cs = [c \in Consumers |-> IdleLocals("idle")]
  /\ rc = IdleRecon
  /\ status \in p.statuses
  /\ accepts \in p.acceptances
  /\ plan \in [Jobs -> p.plans]
  /\ \A j \in Jobs \ p.pending : plan[j] = Raises("Exception")
  /\ config \in p.configs
  /\ shutdown = FALSE
  /\ log = {}

\* ------------------------------------------------- Redis, as the code uses it
Max(S) == CHOOSE x \in S : \A y \in S : y <= x

\* A read of the highest member that leaves it in the set (ZREVRANGE 0 0).
ZPeekMaxRest(zset) == zset

\* ZPOPMAX key: the member with the highest score, and the set without it.
ZPopMaxMember(zset) == Max(zset)
ZPopMaxRest(zset) == zset \ {ZPopMaxMember(zset)}

\* ZREVRANGEBYSCORE key Inf -Inf: the members, highest score first.
RECURSIVE ZRevRange(_)
ZRevRange(zset) ==
  IF zset = {} THEN <<>> ELSE <<Max(zset)>> \o ZRevRange(zset \ {Max(zset)})

\* ZSCORE as a condition: a missing member (None) and a score of 0 are falsy.
ZScoreTruthy(zset, member) == zset[member] # 0

\* --------------------------------------------------------- queue consumer
At(c, pc) == cs[c].pc = pc
Goto(c, pc) == [cs EXCEPT ![c].pc = pc]
Logged(e) == log' = log \cup {e}
\* The operation op on job j, numbered among those already in the history.
Op(op, j) ==
  [op |-> op, uuid |-> j,
   nth |-> Cardinality({e \in log : e.op = op /\ e.uuid = j}) + 1]

\* The first step of the cleanup: the ZSCORE is asked only for a job that
\* had a bucket token.
CleanupEntry(queue) == IF queue # NoQueue THEN "zscore" ELSE "execute"

\* Where process_capture_queue goes on when _capture has returned.
AfterCapture(success, queue) ==
  IF success THEN CleanupEntry(queue) ELSE "setex"

\* _capture returns (success, error_message) to process_capture_queue.
Return(c, success, message) ==
  [cs EXCEPT ![c].success = success, ![c].error_message = message,
             ![c].pc = AfterCapture(success, cs[c].queue)]

\* An exception leaves process_capture_queue and _to_run_forever_async.
Fault(c, what) ==
  [cs EXCEPT ![c] = [IdleLocals("faulted") EXCEPT !.error_message = what]]

\* run_async calls _to_run_forever_async, again and again; a process that
\* died is started anew.
Enter(c) ==
  /\ cs[c].pc \in {"idle", "faulted", "crashed"}
  /\ ~shutdown
  /\ cs' = [cs EXCEPT ![c] = IdleLocals("exists")]
  /\ UNCHANGED <<storeVars, fs, rc, envVars, log>>

\* while await self.redis.exists('to_capture')
Exists(c) ==
  /\ At(c, "exists")
  /\ cs' = Goto(c, IF to_capture # {} THEN "zpopmax" ELSE "close")
  /\ UNCHANGED <<storeVars, fs, rc, envVars, log>>

\* await self.redis.close()
Close(c) ==
  /\ At(c, "close")
  /\ cs' = [cs EXCEPT ![c] = IdleLocals("idle")]
  /\ UNCHANGED <<storeVars, fs, rc, envVars, log>>

\* value = await self.redis.zpopmax('to_capture')
ZPopMax(c) ==
  /\ At(c, "zpopmax")
  /\ IF to_capture = {}
       THEN /\ cs' = Goto(c, "shutdown?")
            /\ UNCHANGED <<to_capture, log>>
       ELSE /\ to_capture' = ZPopMaxRest(to_capture)
            /\ cs' = [cs EXCEPT ![c].uuid = ZPopMaxMember(to_capture),
                                ![c].pc = "getdel"]
            /\ Logged(Op("zpopmax", ZPopMaxMember(to_capture)))
  /\ UNCHANGED <<mgmt, ongoing, records, queues, errors, lookup_dirs, fs, rc, envVars>>

\* queue = await self.redis.getdel(f'{uuid}_mgmt')
GetDel(c) ==
  /\ At(c, "getdel")
  /\ cs' = [cs EXCEPT ![c].queue = mgmt[cs[c].uuid], ![c].pc = "sadd"]
  /\ mgmt' = [mgmt EXCEPT ![cs[c].uuid] = NoQueue]
  /\ UNCHANGED <<to_capture, ongoing, records, queues, errors, lookup_dirs, fs,
                 rc, envVars, log>>

\* await self.redis.sadd('ongoing', uuid)
SAdd(c) ==
  /\ At(c, "sadd")
  /\ ongoing' = ongoing \cup {cs[c].uuid}
  /\ cs' = Goto(c, "hgetall")
  /\ Logged(Op("sadd", cs[c].uuid))
  /\ UNCHANGED <<to_capture, mgmt, records, queues, errors, lookup_dirs, fs, rc,
                 envVars>>

\* to_capture = await self.redis.hgetall(uuid), and the decoding of the
\* record up to the call of _capture.
HGetAll(c) ==
  LET rec == records[cs[c].uuid]
      decoded == [cs[c] EXCEPT !.to_capture = rec,
                               !.listing = Listing(rec, config.default_public),
                               !.proxy = JobProxy(rec)]
  IN
  /\ At(c, "hgetall")
  /\ cs' = [cs EXCEPT ![c] =
       CASE TargetKind(rec) = "document" /\ "document_name" \notin DOMAIN rec ->
              [IdleLocals("faulted") EXCEPT
                 !.error_message = "KeyError: document_name"]
         [] TargetKind(rec) = "document" /\ "document_name" \in DOMAIN rec ->
              [decoded EXCEPT !.pc = "capture", !.url = TmpFileUrl]
         [] TargetKind(rec) = "url" ->
              [decoded EXCEPT !.pc = "capture", !.url = rec["url"]]
         [] OTHER ->
              [decoded EXCEPT !.pc = CleanupEntry(cs[c].queue), !.url = EmptyUrl]]
  /\ UNCHANGED <<storeVars, fs, rc, envVars, log>>

\* _capture, up to the session: normalization, SSRF guard, onion proxy.
Guard(c) ==
  LET u == NormalizeUrl(cs[c].url)
      verdict == GuardVerdict(u, config.only_global_lookups)
      resolved == IF NeedsResolve(u, config.only_global_lookups)
                    THEN {[op |-> "gethostbyname", uuid |-> cs[c].uuid,
                           host |-> Hostname(u)]}
                    ELSE {}
  IN
  /\ At(c, "capture")
  /\ log' = log \cup {Op("_capture", cs[c].uuid)} \cup resolved
  /\ cs' = IF verdict # ""
             THEN Return(c, FALSE, verdict)
             ELSE [cs EXCEPT ![c].url = u,
                             ![c].proxy = SessionProxy(u, cs[c].proxy),
                             ![c].pc = "session"]
  /\ UNCHANGED <<storeVars, fs, rc, envVars>>

\* async with Capture(browser=..., device_name=..., proxy=proxy) as capture,
\* and the settings of the session up to initialize_context().
Session(c) ==
  /\ At(c, "session")
  /\ Logged([op |-> "Capture", uuid |-> cs[c].uuid, proxy |-> cs[c].proxy,
             url |-> cs[c].url])
  /\ cs' = Goto(c, "capture_page")
  /\ UNCHANGED <<storeVars, fs, rc, envVars>>

\* entries = await capture.capture_page(url, referer=referer), the two
\* except clauses and the test for an empty bundle.
CapturePage(c) ==
  LET outcome == plan[cs[c].uuid] IN
  /\ At(c, "capture_page")
  /\ Logged([op |-> "capture_page", uuid |-> cs[c].uuid, url |-> cs[c].url])
  /\ cs' =
       CASE outcome.kind = "PlaywrightCaptureException" ->
              Return(c, FALSE, "Invalid parameters for the capture")
         [] outcome.kind = "Exception" ->
              Return(c, FALSE, "Something went terribly wrong")
         [] outcome.kind = "bundle" /\ outcome.entries = EmptyRec ->
              Return(c, FALSE, "Something went terribly wrong")
         [] OTHER ->
              [cs EXCEPT ![c].entries = outcome.entries, ![c].pc = "mkdir"]
  /\ UNCHANGED <<storeVars, fs, rc, envVars>>

\* Whether the step of the persistence touches the filesystem or the store,
\* or may leave _capture.
Acts(step, rec, listing, entries) ==
  step \in {"har?", "lookup_dirs"} \/ Writes(step, rec, listing, entries)

\* The first step from place w on that acts: the conditions of the steps
\* before it are false, and they are passed over.
RECURSIVE NextStep(_, _)
NextStep(l, w) ==
  IF Acts(PersistOrder[w], l.to_capture, l.listing, l.entries)
    THEN w ELSE NextStep(l, w + 1)

\* now = datetime.now(); dirpath = ...; safe_create_dir(dirpath)
MkDir(c) ==
  /\ At(c, "mkdir")
  /\ \E now \in Dirs :
       /\ fs' = [fs EXCEPT ![now].created = TRUE]
       /\ cs' = [cs EXCEPT ![c].dirpath = now, ![c].w = NextStep(cs[c], 1),
                           ![c].pc = "persist"]
  /\ UNCHANGED <<storeVars, rc, envVars, log>>

\* The file a step of the persistence leaves in directory dir.
WriteFile(dir, step, uuid) ==
  [dir EXCEPT !.files = @ \cup {step},
              !.uuid = IF step = "uuid" THEN uuid ELSE @]

\* One step of the persistence: a file written, the test for the HAR, or the
\* registration of the pointer.
Persist(c) ==
  LET l == cs[c]
      step == PersistOrder[l.w]
      next == [cs EXCEPT ![c].w = NextStep(l, l.w + 1)]
  IN
  /\ At(c, "persist")
  /\ CASE step = "har?" ->
            /\ cs' = IF "har" \in DOMAIN l.entries THEN next
                     ELSE IF "error" \notin DOMAIN l.entries
                       THEN Fault(c, "KeyError: error")
                     ELSE Return(c, FALSE, IF l.entries["error"] # ""
                                             THEN l.entries["error"]
                                             ELSE "Unknown error")
            /\ UNCHANGED <<fs, lookup_dirs>>
       [] step = "lookup_dirs" ->
            /\ lookup_dirs' = [lookup_dirs EXCEPT ![l.uuid] = l.dirpath]
            /\ cs' = Return(c, TRUE, "All good!")
            /\ UNCHANGED fs
       [] OTHER ->
            /\ fs' = [fs EXCEPT ![l.dirpath] = WriteFile(@, step, l.uuid)]
            /\ cs' = next
            /\ UNCHANGED lookup_dirs
  /\ UNCHANGED <<to_capture, mgmt, ongoing, records, queues, errors, rc, envVars, log>>

\* await self.redis.setex(f'error_{uuid}', 36000, ...)
SetEx(c) ==
  /\ At(c, "setex")
  /\ errors' = [errors EXCEPT ![cs[c].uuid] = cs[c].error_message]
  /\ Logged([op |-> "setex", uuid |-> cs[c].uuid, message |-> cs[c].error_message])
  /\ cs' = Goto(c, CleanupEntry(cs[c].queue))
  /\ UNCHANGED <<to_capture, mgmt, ongoing, records, queues, lookup_dirs, fs, rc,
                 envVars>>

\* if queue and await self.redis.zscore('queues', queue)
ZScore(c) ==
  /\ At(c, "zscore")
  /\ cs' = [cs EXCEPT ![c].decrement = ZScoreTruthy(queues, cs[c].queue),
                      ![c].pc = "execute"]
  /\ UNCHANGED <<storeVars, fs, rc, envVars, log>>

\* await lazy_cleanup.execute(): ZINCRBY, SREM, DEL and EXPIRE in one
\* transaction.
Execute(c) ==
  /\ At(c, "execute")
  /\ queues' = IF cs[c].decrement
                 THEN [queues EXCEPT ![cs[c].queue] = @ - 1] ELSE queues
  /\ ongoing' = ongoing \ {cs[c].uuid}
  /\ records' = [records EXCEPT ![cs[c].uuid] = EmptyRec]
  /\ Logged(Op("cleanup", cs[c].uuid)
             @@ [target |-> TargetKind(cs[c].to_capture)])
  /\ cs' = [cs EXCEPT ![c] = IdleLocals("shutdown?")]
  /\ UNCHANGED <<to_capture, mgmt, errors, lookup_dirs, fs, rc, envVars>>

\* if self.shutdown_requested(): break
ShutdownCheck(c) ==
  /\ At(c, "shutdown?")
  /\ cs' = Goto(c, IF shutdown THEN "close" ELSE "exists")
  /\ UNCHANGED <<storeVars, fs, rc, envVars, log>>

\* The process of a consumer dies while it runs process_capture_queue.
Crash(c) ==
  /\ cs[c].pc \in {"getdel", "sadd", "hgetall", "capture", "session",
                   "capture_page", "mkdir", "persist", "setex", "zscore",
                   "execute"}
  /\ cs' = [cs EXCEPT ![c] = IdleLocals("crashed")]
  /\ UNCHANGED <<storeVars, fs, rc, envVars, log>>

Consumer(c) ==
  \/ Enter(c) \/ Exists(c) \/ ZPopMax(c) \/ GetDel(c) \/ SAdd(c) \/ HGetAll(c)
  \/ Guard(c) \/ Session(c) \/ CapturePage(c) \/ MkDir(c) \/ Persist(c)
  \/ SetEx(c) \/ ZScore(c) \/ Execute(c) \/ ShutdownCheck(c) \/ Close(c)
  \/ Crash(c)

\* ------------------------------------------------------------- environment
\* The stop signal of the process manager.
RequestShutdown ==
  /\ ~shutdown
  /\ shutdown' = TRUE
  /\ UNCHANGED <<storeVars, fs, cs, rc, status, accepts, plan, config, log>>

\* The time to live of an error entry (36000 s) runs out.
ExpireError ==
  /\ \E j \in Jobs :
       /\ errors[j] # ""
       /\ errors' = [errors EXCEPT ![j] = ""]
  /\ UNCHANGED <<to_capture, mgmt, ongoing, records, queues, lookup_dirs, fs, cs,
                 rc, envVars, log>>

\* The backend's knowledge of a capture changes (scheduled, lost, restarted).
StatusChange ==
  /\ \E j \in Jobs :
       status' = [status EXCEPT ![j] = IF @ = "unknown" THEN "known" ELSE "unknown"]
  /\ UNCHANGED <<storeVars, fs, cs, rc, accepts, plan, config, shutdown, log>>

\* The backend starts or stops accepting the submission of a capture.
AcceptChange ==
  /\ \E j \in Jobs : accepts' = [accepts EXCEPT ![j] = ~@]
  /\ UNCHANGED <<storeVars, fs, cs, rc, status, plan, config, shutdown, log>>

\* ------------------------------------------------------ reconciliation loop
RetryCount == 3

Uuid(r) == r.scan[r.i]

\* get_capture_status(uuid) in [CaptureStatusPy.UNKNOWN, CaptureStatusCore.UNKNOWN]
IsUnknown(s) == s = "unknown"

\* The pass ends after the identifier at hand (continue taken for break).
EndPass(r) ==
  [r EXCEPT !.pc = "idle", !.retry = 0, !.query = [f \in {} |-> ""],
            !.probes = <<>>]

\* The for loop goes to its next identifier, or the pass ends.
Advance(r) ==
  IF r.i < Len(r.scan)
    THEN [r EXCEPT !.i = r.i + 1, !.pc = "hexists", !.retry = 0,
                   !.query = EmptyRec, !.probes = <<>>]
    ELSE [r EXCEPT !.pc = "idle", !.retry = 0, !.query = EmptyRec,
                   !.probes = <<>>]

\* The pass going on with the next identifier after a failed submission
\* (continue for break).
SkipFailed(r) == Advance(r)

\* break: the pass ends where it is.
Break(r) ==
  [r EXCEPT !.pc = "idle", !.retry = 0, !.query = EmptyRec, !.probes = <<>>]

Did(r, what) == [r EXCEPT !.done = @ \cup {[op |-> what, uuid |-> Uuid(r)]}]

\* The while loop without its break.
RetryVerdictNoBreak(s, retry) ==
  IF retry - 1 > 0 THEN "retry" ELSE "reenqueue"

\* The while loop giving up at the first retry query that answers unknown.
RetryVerdictEager(s, retry) ==
  IF ~IsUnknown(s) THEN "left alone" ELSE "reenqueue"

\* What the while loop does after a retry query answered s with `retry`
\* attempts left: "left alone" (break), "retry" (sleep, ask again) or "reenqueue"
\* (the else clause of the loop).
RetryVerdict(s, retry) ==
  IF ~IsUnknown(s) THEN "left alone"
  ELSE IF retry - 1 > 0 THEN "retry"
  ELSE "reenqueue"

\* for uuid in self.lookyloo.redis.zrevrangebyscore('to_capture', 'Inf', '-Inf')
ReconStart ==
  /\ rc.pc = "idle"
  /\ rc' = IF to_capture = {}
             THEN IdleRecon
             ELSE [IdleRecon EXCEPT !.scan = ZRevRange(to_capture), !.i = 1,
                                    !.pc = "hexists"]
  /\ UNCHANGED <<storeVars, fs, cs, envVars, log>>

\* The scan asking the backend about every identifier, flagged or not.
HExistsIgnored ==
  /\ rc.pc = "hexists"
  /\ rc' = [rc EXCEPT !.pc = "status"]
  /\ UNCHANGED <<storeVars, fs, cs, envVars, log>>

\* if self.lookyloo.redis.hexists(uuid, 'not_queued')
HExists ==
  /\ rc.pc = "hexists"
  /\ rc' = IF "not_queued" \in DOMAIN records[Uuid(rc)]
             THEN [Did(rc, "flagged") EXCEPT !.pc = "hgetall"]
             ELSE [rc EXCEPT !.pc = "status"]
  /\ UNCHANGED <<storeVars, fs, cs, envVars, log>>

\* elif self.lookyloo.lacus.get_capture_status(uuid) in [UNKNOWN, UNKNOWN]
FirstStatus ==
  LET asked == [rc EXCEPT !.probes = Append(@, status[Uuid(rc)])] IN
  /\ rc.pc = "status"
  /\ rc' = IF IsUnknown(status[Uuid(rc)])
             THEN [asked EXCEPT !.retry = RetryCount, !.pc = "retry"]
             ELSE Advance(asked)
  /\ UNCHANGED <<storeVars, fs, cs, envVars, log>>

\* One turn of the while loop: the status query, then break, or
\* retry -= 1 and time.sleep(3).  An answer other than unknown is noted in
\* done, with the number of queries it took.
RetryStatus ==
  LET answer == status[Uuid(rc)]
      asked == [rc EXCEPT !.probes = Append(@, answer)]
      seen == IF IsUnknown(answer) THEN asked
              ELSE [asked EXCEPT !.done = @ \cup
                      {[op |-> "resolved", uuid |-> Uuid(rc),
                        queries |-> Len(asked.probes)]}]
      verdict == RetryVerdict(answer, rc.retry)
  IN
  /\ rc.pc = "retry"
  /\ rc' = CASE verdict = "left alone" -> Advance(seen)
             [] verdict = "retry" -> [seen EXCEPT !.retry = rc.retry - 1]
             [] OTHER -> [seen EXCEPT !.retry = 0, !.pc = "hgetall"]
  /\ UNCHANGED <<storeVars, fs, cs, envVars, log>>

\* query = self.lookyloo.redis.hgetall(uuid)
ReconHGetAll ==
  /\ rc.pc = "hgetall"
  /\ rc' = [rc EXCEPT !.query = records[Uuid(rc)], !.pc = "enqueue"]
  /\ UNCHANGED <<storeVars, fs, cs, envVars, log>>

\* Whether a consumer has claimed the job: it is in 'ongoing', or its record
\* was cleaned up.
Claimed(j) ==
  j \in ongoing \/ \E e \in log : e.op = "cleanup" /\ e.uuid = j

\* new_uuid = self.lookyloo.lacus.enqueue(..., uuid=uuid); an exception ends
\* the pass.  The submission is noted in done: whether the backend accepted
\* it, whether a consumer had claimed the job, whether it carried a record.
Enqueue ==
  LET submission == [op |-> IF accepts[Uuid(rc)] THEN "enqueued" ELSE "refused",
                     uuid |-> Uuid(rc),
                     claimed |-> Claimed(Uuid(rc)),
                     stored |-> rc.query # EmptyRec]
      noted == [rc EXCEPT !.done = @ \cup {submission}]
  IN
  /\ rc.pc = "enqueue"
  /\ rc' = IF accepts[Uuid(rc)]
             THEN [noted EXCEPT !.pc = "hdel"]
             ELSE Break(noted)
  /\ UNCHANGED <<storeVars, fs, cs, envVars, log>>

\* The record deleted whole after an accepted submission (DEL for HDEL).
HDelRecord ==
  /\ rc.pc = "hdel"
  /\ records' = [records EXCEPT ![Uuid(rc)] = EmptyRec]
  /\ rc' = Advance(Did(rc, "hdel"))
  /\ UNCHANGED <<to_capture, mgmt, ongoing, queues, errors, lookup_dirs, fs, cs,
                 envVars, log>>

\* self.lookyloo.redis.hdel(uuid, 'not_queued')
HDel ==
  /\ rc.pc = "hdel"
  /\ records' = [records EXCEPT ![Uuid(rc)] = Without(@, "not_queued")]
  /\ rc' = Advance(Did(rc, "hdel"))
  /\ UNCHANGED <<to_capture, mgmt, ongoing, queues, errors, lookup_dirs, fs, cs,
                 envVars, log>>

Recon ==
  \/ ReconStart \/ HExists \/ FirstStatus \/ RetryStatus \/ ReconHGetAll
  \/ Enqueue \/ HDel

\* ------------------------------------------------------------ specifications
\* Records of jobs, as the front end stores them.
HttpUrl(auth) == [starts |-> "http", sep |-> TRUE, auth |-> auth]
UrlJob(u) == "url" :> u
NoTargetJob == "listing" :> "false"
DocumentJob == ("document" :> "<html>") @@ ("document_name" :> "page.html")
NamelessDocumentJob == "document" :> "<html>"
NotQueued(rec) == rec @@ ("not_queued" :> "1")

\* Bundles of the backend.
Bundle(fields, value) == [f \in fields |-> value]
FullBundle == Bundle(BundleFields \ {"error"}, "x")

NoCharges ==
  {[mgmt |-> [j \in Jobs |-> NoQueue], queues |-> [b \in Buckets |-> 0]]}
\* Each bucket counts the jobs charged to it.
ExactCharges ==
  {[mgmt |-> m,
    queues |-> [b \in Buckets |-> Cardinality({j \in Jobs : m[j] = b})]] :
     m \in [Jobs -> Buckets \cup {NoQueue}]}
QuietBackend ==
  [statuses |-> {[j \in Jobs |-> "known"]}, acceptances |-> {[j \in Jobs |-> TRUE]}]

\* The consumers on a queue of NumJobs jobs of every shape, against a
\* rendering backend that fails, returns a full bundle, or a bundle without
\* HAR; shutdown may be requested and error entries expire.
Init ==
  InitWith([pending |-> Jobs,
            shapes |-> {UrlJob(HttpUrl("example.com")), NoTargetJob,
                        NamelessDocumentJob},
            charges |-> ExactCharges,
            plans |-> {Raises("Exception"), Returns(FullBundle),
                       Returns(Bundle({"png"}, "x"))},
            statuses |-> QuietBackend.statuses,
            acceptances |-> QuietBackend.acceptances,
            configs |-> {[only_global_lookups |-> TRUE, default_public |-> TRUE]}])

Next ==
  \/ \E c \in Consumers : Consumer(c)
  \/ RequestShutdown
  \/ ExpireError

Spec == Init /\ [][Next]_vars

\* Consumers racing for a queue of NumJobs jobs, each charged to the first
\* bucket; the rendering backend fails every capture, so no job reaches the
\* persistence.
ClaimInit ==
  InitWith([pending |-> Jobs,
            shapes |-> {UrlJob(HttpUrl("example.com"))},
            charges |-> {[mgmt |-> [j \in Jobs |-> 1],
                          queues |-> [b \in Buckets |-> IF b = 1 THEN NumJobs ELSE 0]]},
            plans |-> {Raises("Exception")},
            statuses |-> QuietBackend.statuses,
            acceptances |-> QuietBackend.acceptances,
            configs |-> {[only_global_lookups |-> TRUE, default_public |-> TRUE]}])

\* The steps of a consumer whose captures fail; no shutdown is requested
\* while the consumers drain the queue.
ClaimNext ==
  \E c \in Consumers :
    \/ Enter(c) \/ Exists(c) \/ ZPopMax(c) \/ GetDel(c) \/ SAdd(c) \/ HGetAll(c)
    \/ Guard(c) \/ Session(c) \/ CapturePage(c) \/ SetEx(c) \/ ZScore(c)
    \/ Execute(c) \/ ShutdownCheck(c) \/ Close(c) \/ Crash(c)

ClaimSpec == ClaimInit /\ [][ClaimNext]_vars

\* One consumer and one job: every url, with and without a proxy of its own,
\* and an uploaded document, with the lookup restriction on and off.
WithProxy(rec) == rec @@ ("proxy" :> "socks5://job.example:1080")

GuardInit ==
  InitWith([pending |-> {1},
            shapes |-> {UrlJob(u) : u \in Urls}
                       \cup {WithProxy(UrlJob(u)) : u \in Urls}
                       \cup {DocumentJob},
            charges |-> {[mgmt |-> [j \in Jobs |-> IF j = 1 THEN 1 ELSE NoQueue],
                          queues |-> [b \in Buckets |-> IF b = 1 THEN 1 ELSE 0]]},
            plans |-> {Raises("Exception"), Returns(Bundle({"har"}, "x"))},
            statuses |-> QuietBackend.statuses,
            acceptances |-> QuietBackend.acceptances,
            configs |-> {[only_global_lookups |-> g, default_public |-> TRUE] :
                           g \in BOOLEAN}])

GuardNext ==
  \/ Consumer(1)
  \/ RequestShutdown
  \/ ExpireError

GuardSpec == GuardInit /\ [][GuardNext]_vars

\* One consumer works through a queue of NumJobs jobs and may die and be
\* started again; the bundles are complete, with empty values, without HAR,
\* without HAR and error, or the capture raises.
StoreBundles ==
  {FullBundle,
   Bundle({"har"}, "x") @@ Bundle(BundleFields, ""),
   Bundle({"error"}, "x"),
   Bundle({"png"}, "x")}

StoreInit ==
  InitWith([pending |-> Jobs,
            shapes |-> {UrlJob(HttpUrl("example.com"))},
            charges |-> {[mgmt |-> [j \in Jobs |-> 1],
                          queues |-> [b \in Buckets |-> IF b = 1 THEN NumJobs ELSE 0]]},
            plans |-> {Returns(b) : b \in StoreBundles} \cup {Raises("Exception")},
            statuses |-> QuietBackend.statuses,
            acceptances |-> QuietBackend.acceptances,
            configs |-> {[only_global_lookups |-> TRUE, default_public |-> TRUE]}])

StoreNext == Consumer(1)

StoreSpec == StoreInit /\ [][StoreNext]_vars

AnyBackend ==
  [statuses |-> [Jobs -> {"unknown", "known"}], acceptances |-> [Jobs -> BOOLEAN]]

\* The reconciliation loop alone on a queue of NumJobs jobs that stay
\* pending, some flagged 'not_queued', against a backend whose answers
\* change freely.  Processing.run calls _to_run_forever every 30 s: the
\* passes keep running.
ReconInit ==
  InitWith([pending |-> Jobs,
            shapes |-> {UrlJob(HttpUrl("example.com")),
                        NotQueued(UrlJob(HttpUrl("example.com")))},
            charges |-> NoCharges,
            plans |-> {Raises("Exception")},
            statuses |-> AnyBackend.statuses,
            acceptances |-> AnyBackend.acceptances,
            configs |-> {[only_global_lookups |-> TRUE, default_public |-> TRUE]}])

ReconNext ==
  \/ Recon
  \/ StatusChange
  \/ AcceptChange

ReconSpec == ReconInit /\ [][ReconNext]_vars /\ WF_vars(Recon)

\* Consumers and reconciliation loop together.
RaceInit ==
  InitWith([pending |-> Jobs,
            shapes |-> {UrlJob(HttpUrl("example.com")),
                        NotQueued(UrlJob(HttpUrl("example.com")))},
            charges |-> {[mgmt |-> [j \in Jobs |-> 1],
                          queues |-> [b \in Buckets |-> IF b = 1 THEN NumJobs ELSE 0]]},
            plans |-> {Returns(Bundle({"error"}, "x"))},
            statuses |-> {[j \in Jobs |-> st] : st \in {"unknown", "known"}},
            acceptances |-> QuietBackend.acceptances,
            configs |-> {[only_global_lookups |-> TRUE, default_public |-> TRUE]}])

RaceNext ==
  \/ Consumer(1)
  \/ Recon

RaceSpec == RaceInit /\ [][RaceNext]_vars

\* A job record with a listing field.
WithListing(rec, v) == rec @@ ("listing" :> v)

\* One consumer and one job: a url with every value of the listing field and
\* without the field, under both default policies; the capture succeeds,
\* comes back without HAR, or fails.
ListingInit ==
  InitWith([pending |-> {1},
            shapes |-> {UrlJob(HttpUrl("example.com"))}
                         \cup {WithListing(UrlJob(HttpUrl("example.com")), v) :
                                 v \in ListingValues},
            charges |-> ExactCharges,
            plans |-> {Returns(FullBundle), Returns(Bundle({"error"}, "x")),
                       Raises("Exception")},
            statuses |-> QuietBackend.statuses,
            acceptances |-> QuietBackend.acceptances,
            configs |-> [only_global_lookups : {TRUE}, default_public : BOOLEAN]])

ListingNext == Consumer(1)

ListingSpec == ListingInit /\ [][ListingNext]_vars

\* One consumer process that is never killed, on a queue of url jobs and
\* uploaded documents without name; the capture fails or succeeds, and
\* shutdown may be requested at any moment.
LoopInit ==
  InitWith([pending |-> Jobs,
            shapes |-> {UrlJob(HttpUrl("example.com")), NamelessDocumentJob},
            charges |-> {[mgmt |-> [j \in Jobs |-> 1],
                          queues |-> [b \in Buckets |-> IF b = 1 THEN NumJobs ELSE 0]]},
            plans |-> {Raises("Exception"), Returns(Bundle({"har"}, "x"))},
            statuses |-> QuietBackend.statuses,
            acceptances |-> QuietBackend.acceptances,
            configs |-> {[only_global_lookups |-> TRUE, default_public |-> TRUE]}])

LoopNext ==
  \/ Enter(1) \/ Exists(1) \/ ZPopMax(1) \/ GetDel(1) \/ SAdd(1) \/ HGetAll(1)
  \/ Guard(1) \/ Session(1) \/ CapturePage(1) \/ MkDir(1) \/ Persist(1)
  \/ SetEx(1) \/ ZScore(1) \/ Execute(1) \/ ShutdownCheck(1) \/ Close(1)
  \/ RequestShutdown

LoopSpec == LoopInit /\ [][LoopNext]_vars

\* Consumers finishing jobs charged to the first bucket, whose counter holds
\* any value from 0 to NumJobs: the counter is kept by the front end, and
\* 'queues' is given a time to live of 600 s by each cleanup, so it can be
\* lower than the number of jobs of the bucket in flight.
CounterInit ==
  InitWith([pending |-> Jobs,
            shapes |-> {UrlJob(HttpUrl("example.com"))},
            charges |-> {[mgmt |-> [j \in Jobs |-> 1],
                          queues |-> [b \in Buckets |-> IF b = 1 THEN n ELSE 0]] :
                           n \in 0..NumJobs},
            plans |-> {Raises("Exception")},
            statuses |-> QuietBackend.statuses,
            acceptances |-> QuietBackend.acceptances,
            configs |-> {[only_global_lookups |-> TRUE, default_public |-> TRUE]}])

CounterNext == ClaimNext

CounterSpec == CounterInit /\ [][CounterNext]_vars

\* The reconciliation loop beside one consumer that is never killed and
\* whose captures fail, on a queue of flagged and unflagged jobs.
FrameInit ==
  InitWith([pending |-> Jobs,
            shapes |-> {UrlJob(HttpUrl("example.com")),
                        NotQueued(UrlJob(HttpUrl("example.com")))},
            charges |-> {[mgmt |-> [j \in Jobs |-> 1],
                          queues |-> [b \in Buckets |-> IF b = 1 THEN NumJobs ELSE 0]]},
            plans |-> {Raises("Exception")},
            statuses |-> {[j \in Jobs |-> st] : st \in {"unknown", "known"}},
            acceptances |-> QuietBackend.acceptances,
            configs |-> {[only_global_lookups |-> TRUE, default_public |-> TRUE]}])

FrameNext ==
  \/ Enter(1) \/ Exists(1) \/ ZPopMax(1) \/ GetDel(1) \/ SAdd(1) \/ HGetAll(1)
  \/ Guard(1) \/ Session(1) \/ CapturePage(1) \/ SetEx(1) \/ ZScore(1)
  \/ Execute(1) \/ ShutdownCheck(1) \/ Close(1)
  \/ Recon

FrameSpec == FrameInit /\ [][FrameNext]_vars

\* ------------------------------------------------------------------ claims
Events(op, j) == {e \in log : e.op = op /\ e.uuid = j}
Times(op, j) == Cardinality(Events(op, j))
Holders(j) == {c \in Consumers : cs[c].uuid = j}
Cleaned(j) == Events("cleanup", j) # {}
ErrorRecorded(j) == Events("setex", j) # {}

\* C1: under every interleaving of the consumers each job identifier is
\* popped at most once, so at most one consumer holds it, and it is added to
\* 'ongoing' and dispatched at most once, by the consumer that popped it;
\* once the queue has drained every identifier has been popped exactly once.
C1_ExactlyOnceClaim ==
  \A j \in Jobs :
    /\ Times("zpopmax", j) <= 1
    /\ Cardinality(Holders(j)) <= 1
    /\ Times("sadd", j) <= Times("zpopmax", j)
    /\ Times("_capture", j) <= Times("sadd", j)
    /\ Holders(j) # {} => Times("zpopmax", j) = 1
    /\ to_capture = {} => Times("zpopmax", j) = 1

\* Two consumers are inside _capture at once, each with a job of its own, and
\* the queue has drained.
C1_Witness ==
  /\ to_capture = {}
  /\ \E c, d \in Consumers :
       /\ c # d
       /\ cs[c].pc = "capture_page" /\ cs[d].pc = "capture_page"
       /\ cs[c].uuid # cs[d].uuid
       /\ Times("_capture", cs[c].uuid) = 1 /\ Times("_capture", cs[d].uuid) = 1

\* C3: whenever the cleanup has deleted the record of a job, a terminal
\* outcome of the job was recorded before: the pointer in 'lookup_dirs' or an
\* error entry 'error_<uuid>'.
C3_OutcomeBeforeDelete ==
  \A j \in Jobs : Cleaned(j) => (lookup_dirs[j] # NoDir \/ ErrorRecorded(j))

\* C4: for a claimed job whose record has neither url nor document, _capture
\* is never invoked, and a "no target" outcome is recorded for the identifier
\* before the record is deleted.
C4_NoTargetRecorded ==
  \A j \in Jobs :
    \A e \in Events("cleanup", j) :
      e.target = "none" => (Events("_capture", j) = {} /\ ErrorRecorded(j))

\* C5: no fault leaves process_capture_queue, whatever the record of the job
\* and whatever the backend returns.
C5_NoFaultPropagates ==
  \A c \in Consumers : cs[c].pc # "faulted"

\* The host of the url resolves to an address that is not globally routable.
PrivateHost(u) ==
  /\ Hostname(u) # None
  /\ LastLabel(Hostname(u)) # "onion"
  /\ GetHostByName(Hostname(u)) # "gaierror"
  /\ ~IsGlobal(GetHostByName(Hostname(u)))

PrivateDenial == "Capturing ressources on private IPs is disabled."
GuardDenials == {"Name or service not known.", PrivateDenial,
                 "Unable to find hostname or IP in the query."}

\* The consumer is past the guard of _capture for a url job with target u.
PastGuard(c) ==
  /\ cs[c].uuid # NoJob
  /\ Events("_capture", cs[c].uuid) # {}
  /\ TargetKind(cs[c].to_capture) = "url"

Target(c) == NormalizeUrl(cs[c].to_capture["url"])

\* Every url job in `targets` whose host resolves to a private address is
\* denied by _capture, and neither a session nor capture_page sees it.
PrivateTargetsDenied(targets) ==
  config.only_global_lookups =>
    /\ \A e \in log :
         (e.op \in {"Capture", "capture_page"} /\ e.url \in targets)
           => ~PrivateHost(e.url)
    /\ \A c \in Consumers :
         (PastGuard(c) /\ Target(c) \in targets /\ PrivateHost(Target(c)))
           => /\ cs[c].pc \in {"setex", "zscore", "execute"}
              /\ ~cs[c].success
              /\ cs[c].error_message = PrivateDenial

NormalizedUrls == {NormalizeUrl(u) : u \in Urls}

\* C6 (as stated): with the lookup restriction on, every url job whose host
\* is not an onion host and resolves to a private address is denied, and no
\* session is opened and capture_page is not called for it.
C6_PrivateHostDenied == PrivateTargetsDenied(NormalizedUrls)

\* C6 (amended): the same for every url job whose normalized url does not
\* start with "data" or "file"; those two bypass the guard.
C6_PrivateHttpHostDenied ==
  PrivateTargetsDenied({u \in NormalizedUrls :
                          ~StartsWith(u, "data") /\ ~StartsWith(u, "file")})

\* A url job with a private host was denied, and no session was opened.
C6_Witness ==
  \E c \in Consumers :
    /\ config.only_global_lookups
    /\ PastGuard(c) /\ PrivateHost(Target(c))
    /\ cs[c].pc = "setex" /\ cs[c].error_message = PrivateDenial
    /\ Events("Capture", cs[c].uuid) = {}

\* C7: for a target with an onion host, with the lookup restriction on or
\* off, the name is never resolved, the guard does not deny it, and the
\* session is opened with the proxy of the job, or with the configured Tor
\* proxy when the job has none.
C7_OnionThroughProxy ==
  /\ \A e \in log : e.op = "gethostbyname" => LastLabel(e.host) # "onion"
  /\ \A c \in Consumers :
       (PastGuard(c) /\ IsOnion(Target(c))) =>
          /\ Events("gethostbyname", cs[c].uuid) = {}
          /\ cs[c].error_message \notin GuardDenials
          /\ cs[c].pc # "session" =>
               /\ Events("Capture", cs[c].uuid) # {}
               /\ \A e \in Events("Capture", cs[c].uuid) :
                    e.proxy = IF Truthy(cs[c].to_capture, "proxy")
                                THEN cs[c].to_capture["proxy"] ELSE TorProxy

\* A session was opened through the Tor proxy for an onion target of a job
\* without proxy, with the lookup restriction on.
C7_Witness ==
  \E c \in Consumers :
    /\ config.only_global_lookups
    /\ PastGuard(c) /\ IsOnion(Target(c))
    /\ ~Truthy(cs[c].to_capture, "proxy")
    /\ cs[c].pc = "capture_page"
    /\ \E e \in Events("Capture", cs[c].uuid) : e.proxy = TorProxy

\* The file of each optional field of a bundle.
FileOf(field) ==
  CASE field = "png" -> "0.png"
    [] field = "html" -> "0.html"
    [] field = "last_redirected_url" -> "0.last_redirect.txt"
    [] field = "cookies" -> "0.cookies.json"
    [] field = "downloaded_filename" -> "0.data.filename"
    [] field = "downloaded_file" -> "0.data"
    [] field = "error" -> "error.txt"

\* The bundle the backend returns for job j.
BundleOf(j) == plan[j].entries

\* The fields of a bundle: all that are present, or those with a non-empty
\* value only.
PresentFields(bundle) == DOMAIN bundle
NonEmptyFields(bundle) == {f \in DOMAIN bundle : bundle[f] # ""}

\* A registered directory holds 'uuid', '0.har' and the file of every optional
\* field of the bundle (every present one, or every non-empty one); only a
\* capture with a HAR is registered.
RegisteredComplete(nonEmptyOnly) ==
  \A j \in Jobs :
    lookup_dirs[j] # NoDir =>
      /\ plan[j].kind = "bundle"
      /\ "har" \in DOMAIN BundleOf(j)
      /\ fs[lookup_dirs[j]].created
      /\ {"uuid", "0.har"} \subseteq fs[lookup_dirs[j]].files
      /\ \A f \in (IF nonEmptyOnly THEN NonEmptyFields(BundleOf(j))
                                  ELSE PresentFields(BundleOf(j))) \ {"har"} :
           FileOf(f) \in fs[lookup_dirs[j]].files

\* C8 (as stated): in every state, also after a crash inside _capture, a
\* directory 'lookup_dirs' points to holds 'uuid', '0.har' and the file of
\* every optional field present in the bundle; a failed capture registers
\* no pointer.
C8_PointerAfterPresentFiles == RegisteredComplete(FALSE)

\* C8 (amended): ... and the file of every optional field that is present
\* in the bundle with a non-empty value.
C8_PointerAfterFiles == RegisteredComplete(TRUE)

\* The pointer of a job with a complete bundle is registered, and the
\* consumer has crashed while another job was being persisted.
C8_Witness ==
  \E j \in Jobs :
    /\ lookup_dirs[j] # NoDir
    /\ BundleOf(j) = FullBundle
    /\ cs[1].pc = "crashed"
    /\ \E k \in Jobs \ {j} :
         /\ Times("_capture", k) = 1
         /\ lookup_dirs[k] = NoDir
         /\ "uuid" \in fs[lookup_dirs[j]].files /\ fs[lookup_dirs[j]].uuid = k

\* The submissions of the pass to the backend.
Submissions == {e \in rc.done : e.op \in {"enqueued", "refused"}}

\* C2: a job a consumer has claimed is never submitted to the backend by
\* the reconciliation loop, and every submission of the loop carries the
\* stored record of the job.
C2_NoSubmissionOfClaimedJob ==
  \A e \in Submissions : ~e.claimed /\ e.stored

\* Job j needs a new delivery: it is pending, and flagged 'not_queued' or
\* unknown to the backend.
NeedsDelivery(j) ==
  /\ j \in to_capture
  /\ ("not_queued" \in DOMAIN records[j] \/ IsUnknown(status[j]))

\* The backend has just accepted the submission of job j by the loop.
Resubmitted(j) == rc.pc = "hdel" /\ Uuid(rc) = j

\* Jobs the pass scans before job j.
ScannedBefore(j) == {k \in Jobs : k > j}

Resolved(j) == \E e \in rc.done : e.op = "resolved" /\ e.uuid = j

\* C10: a pending job without flag whose status is unknown at the first
\* query and known at a retry query of the pass is left alone in that pass:
\* no submission, no HDEL of 'not_queued', no further query, and the scan
\* has gone on to the next identifier or ended.
C10_ResolvedLeftAlone ==
  \A j \in Jobs :
    Resolved(j) =>
      /\ \A e \in rc.done :
           e.uuid = j => e.op \notin {"flagged", "enqueued", "refused", "hdel"}
      /\ Cardinality({e \in rc.done : e.uuid = j}) = 1
      /\ "not_queued" \notin DOMAIN records[j]
      /\ rc.pc = "idle" \/ Uuid(rc) # j

\* The status of the first job of the scan flipped to known at the second of
\* the three retries, and the scan is at the next job.
C10_Witness ==
  /\ rc.pc = "hexists" /\ rc.i = 2
  /\ rc.done = {[op |-> "resolved", uuid |-> rc.scan[1], queries |-> 3]}

\* In this pass job j was found flagged 'not_queued'.
Flagged(j) == \E e \in rc.done : e.op = "flagged" /\ e.uuid = j

\* The answers of the first status query and of the RetryCount retry queries,
\* all unknown.
StillUnknown == [n \in 1..(RetryCount + 1) |-> "unknown"]

\* The pass is re-submitting the identifier at hand.
Resubmitting == rc.pc \in {"hgetall", "enqueue", "hdel"}

\* C11: in a pass, a pending job without flag is re-submitted if and only if
\* the first status query and the three retry queries all answered unknown;
\* a job is asked about at most four times; the submission carries the
\* stored record of the job, under its identifier; and after an accepted
\* submission the record has no 'not_queued' field.
C11_ResubmittedIffStillUnknown ==
  /\ Len(rc.probes) <= RetryCount + 1
  /\ (Resubmitting /\ ~Flagged(Uuid(rc))) => rc.probes = StillUnknown
  /\ rc.probes = StillUnknown => Resubmitting
  /\ rc.pc \in {"enqueue", "hdel"} =>
        /\ rc.query = records[Uuid(rc)]
        /\ rc.query # EmptyRec
        /\ Uuid(rc) \in to_capture
  /\ \A e \in rc.done :
        /\ e.op \in {"enqueued", "refused"} => e.stored
        /\ e.op = "hdel" =>
              /\ "not_queued" \notin DOMAIN records[e.uuid]
              /\ \E a \in rc.done : a.op = "enqueued" /\ a.uuid = e.uuid

\* A job without flag, unknown at all four queries, was re-submitted with
\* its record, the backend accepted it, and the HDEL was done.
C11_Witness ==
  \E e \in rc.done :
    /\ e.op = "hdel" /\ ~Flagged(e.uuid)
    /\ \E a \in rc.done : a.op = "enqueued" /\ a.uuid = e.uuid /\ a.stored
    /\ records[e.uuid] # EmptyRec

\* The part of the store the cleanup touches.
Store == [queues |-> queues, ongoing |-> ongoing, records |-> records]

\* The cleanup of process_capture_queue for identifier uuid and bucket token
\* queue, run to its end on store s: the ZSCORE test, then ZINCRBY -1, SREM
\* and DEL.
Cleanup(s, uuid, queue) ==
  [queues |-> IF queue # NoQueue /\ ZScoreTruthy(s.queues, queue)
                THEN [s.queues EXCEPT ![queue] = @ - 1]
                ELSE s.queues,
   ongoing |-> s.ongoing \ {uuid},
   records |-> [s.records EXCEPT ![uuid] = EmptyRec]]

\* C12: in every store a consumer is about to clean up, the cleanup run
\* twice for the identifier and bucket token of the consumer leaves the
\* bucket counters, 'ongoing' and the records as the cleanup run once.
C12_CleanupIdempotent ==
  \A c \in Consumers :
    cs[c].pc \in {"zscore", "execute"} =>
      Cleanup(Cleanup(Store, cs[c].uuid, cs[c].queue), cs[c].uuid, cs[c].queue)
        = Cleanup(Store, cs[c].uuid, cs[c].queue)

\* The values of the listing field that mean unlisted, and listed.
UnlistedValues == {"false", "FALSE", "0", ""}
ListedValues == {"true", "True", "1"}

\* The persistence of the job of consumer c is past the 'no_index' step.
PastNoIndex(c) ==
  /\ cs[c].dirpath # NoDir
  /\ \/ cs[c].pc = "persist" /\ cs[c].w > 3
     \/ cs[c].pc \in {"setex", "zscore", "execute"}

HasNoIndex(c) == "no_index" \in fs[cs[c].dirpath].files

\* C13: for a job past the 'no_index' step of the persistence, the marker is
\* in its directory if the listing field is false, 0 or empty in any case,
\* it is not if the field is true or 1, under both default policies, and
\* without the field it is there exactly under the private default; before
\* that step the marker is not there.
C13_NoIndexIffUnlisted ==
  \A c \in Consumers :
    LET rec == cs[c].to_capture IN
    /\ (cs[c].pc = "persist" /\ cs[c].w <= 3) => ~HasNoIndex(c)
    /\ PastNoIndex(c) =>
          /\ ("listing" \in DOMAIN rec /\ rec["listing"] \in UnlistedValues)
                => HasNoIndex(c)
          /\ ("listing" \in DOMAIN rec /\ rec["listing"] \in ListedValues)
                => ~HasNoIndex(c)
          /\ "listing" \notin DOMAIN rec
                => (HasNoIndex(c) <=> ~config.default_public)

\* Under the private default a job without listing field is registered with
\* the marker in its directory.
C13_Witness ==
  \E c \in Consumers :
    /\ ~config.default_public
    /\ cs[c].uuid # NoJob
    /\ "listing" \notin DOMAIN cs[c].to_capture
    /\ lookup_dirs[cs[c].uuid] = cs[c].dirpath
    /\ PastNoIndex(c) /\ HasNoIndex(c)

\* Job j was popped from 'to_capture'.
Popped(j) == Events("zpopmax", j) # {}

\* C14: when the consumer leaves _to_run_forever_async on a shutdown request
\* or a drained queue, every job it claimed has gone through the cleanup: it
\* is not in 'ongoing' and its record is deleted.  (One consumer runs in
\* LoopSpec: every job popped was claimed by it.)
C14_LeavesWithNothingClaimed ==
  cs[1].pc = "close" =>
    \A j \in Jobs : Popped(j) => (j \notin ongoing /\ records[j] = EmptyRec)

\* C15: in every state, a submitted job whose cleanup has not completed is
\* in 'to_capture' or in 'ongoing', and not in both.
C15_PendingXorOngoing ==
  \A j \in Jobs :
    ~Cleaned(j) => ((j \in to_capture) # (j \in ongoing))

\* C16: under every interleaving of the consumers, a decrement is applied
\* only to a counter that is non-zero in the state where it is applied, so
\* no bucket counter becomes negative.
C16_CounterNeverNegative ==
  \A b \in Buckets : queues[b] >= 0

\* The identifiers that come after the identifier at hand in the scan.
LaterInScan == {rc.scan[n] : n \in (rc.i + 1)..Len(rc.scan)}

\* C17: once a submission has failed, the pass is over: it stands at the
\* failed identifier, whose record is as it was, flag included, no HDEL was
\* done for it, and nothing was asked or submitted for the identifiers later
\* in the scan.
C17_FailureStopsPass ==
  \A e \in rc.done :
    e.op = "refused" =>
      /\ rc.pc = "idle" /\ rc.probes = <<>>
      /\ Uuid(rc) = e.uuid
      /\ records[e.uuid] = IF Flagged(e.uuid)
                             THEN NotQueued(UrlJob(HttpUrl("example.com")))
                             ELSE UrlJob(HttpUrl("example.com"))
      /\ \A a \in rc.done :
            /\ a.uuid = e.uuid => a.op # "hdel"
            /\ a.uuid \notin LaterInScan

\* The submission of a flagged job has failed while another identifier was
\* still to come in the scan.
C17_Witness ==
  \E e \in rc.done :
    /\ e.op = "refused" /\ Flagged(e.uuid)
    /\ LaterInScan # {}
    /\ \E k \in LaterInScan : "not_queued" \in DOMAIN records[k]

\* The record of job j has the 'not_queued' field.
HasFlag(j) == "not_queued" \in DOMAIN records[j]

\* C18: in a pass, a job whose record has the 'not_queued' field goes from
\* the HEXISTS straight to the submission, without status query, whatever
\* the backend would answer; a job the scan has dealt with still has the
\* field only if its own submission failed, which ended the pass.
C18_FlaggedResubmittedUnasked ==
  /\ \A n \in 1..Len(rc.scan) :
        LET j == rc.scan[n] IN
        HasFlag(j) =>
          /\ (n = rc.i /\ rc.pc \notin {"hexists", "idle"}) =>
                /\ Resubmitting /\ rc.probes = <<>>
                /\ Flagged(j)
          /\ (n < rc.i \/ (n = rc.i /\ rc.pc = "idle")) =>
                /\ n = rc.i
                /\ \E e \in rc.done : e.op = "refused" /\ e.uuid = j
  /\ \A j \in Jobs :
        Flagged(j) =>
          /\ ~Resolved(j)
          /\ \/ \E e \in Submissions : e.uuid = j
             \/ Uuid(rc) = j /\ rc.pc \in {"hgetall", "enqueue"}
                  /\ rc.probes = <<>>

\* A flagged job the backend knows was re-submitted and accepted, without
\* status query.
C18_Witness ==
  /\ rc.pc = "hdel" /\ rc.probes = <<>>
  /\ Flagged(Uuid(rc)) /\ HasFlag(Uuid(rc))
  /\ status[Uuid(rc)] = "known"
  /\ \E e \in Submissions : e.uuid = Uuid(rc) /\ e.op = "enqueued"

\* The url has no usable host: no network location, or one that holds no
\* hostname.
NoUsableHost(u) == Netloc(u) = "" \/ Hostname(u) = None

\* The url is a data or file url.
Opaque(u) == StartsWith(u, "data") \/ StartsWith(u, "file")

\* The host of the url resolves to a globally routable address.
GlobalHost(u) ==
  /\ Hostname(u) # None
  /\ GetHostByName(Hostname(u)) # "gaierror"
  /\ IsGlobal(GetHostByName(Hostname(u)))

\* C19: with the lookup restriction on, a target that is no data or file
\* url and has no usable host is denied by _capture and never dispatched; a
\* session is opened and capture_page is called only for a data or file url,
\* an onion host, or a host resolved to a globally routable address.
C19_NoHostDenied ==
  config.only_global_lookups =>
    /\ \A e \in log :
          e.op \in {"Capture", "capture_page"} =>
            (Opaque(e.url) \/ IsOnion(e.url) \/ GlobalHost(e.url))
    /\ \A c \in Consumers :
          (PastGuard(c) /\ ~Opaque(Target(c)) /\ NoUsableHost(Target(c))) =>
             /\ cs[c].pc \in {"setex", "zscore", "execute"}
             /\ ~cs[c].success
             /\ cs[c].error_message \in GuardDenials

\* The record rec with its 'not_queued' field removed.
Unflagged(rec) == [f \in DOMAIN rec \ {"not_queued"} |-> rec[f]]

\* C20: a step of the reconciliation loop, whatever the consumers are doing,
\* leaves 'to_capture', 'ongoing', the bucket tokens and counters, the error
\* entries, 'lookup_dirs' and the capture directories as they are; it
\* deletes no record, and the only record it changes is that of the job it
\* has just submitted with success, by removing the 'not_queued' field.
C20_ReconciliationFrame ==
  [][Recon =>
       /\ UNCHANGED <<to_capture, mgmt, ongoing, queues, errors, lookup_dirs, fs>>
       /\ \A j \in Jobs :
             \/ records'[j] = records[j]
             \/ /\ records'[j] = Unflagged(records[j])
                /\ records'[j] # EmptyRec
                /\ rc.pc = "hdel" /\ Uuid(rc) = j
                /\ \E e \in rc.done : e.op = "enqueued" /\ e.uuid = j]_vars

\* The loop has removed the 'not_queued' field of a job while a consumer was
\* processing another one.
C20_Witness ==
  /\ \E e \in rc.done : e.op = "hdel" /\ records[e.uuid] = UrlJob(HttpUrl("example.com"))
                              /\ Flagged(e.uuid)
  /\ \E c \in Consumers : cs[c].uuid # NoJob /\ cs[c].uuid \in ongoing

\* Consumer c is between safe_create_dir(dirpath) and the return of _capture:
\* it writes the files of its job into dirpath.
WritesInto(c) == IF cs[c].pc = "persist" THEN cs[c].dirpath ELSE NoDir

\* The job whose pointer in 'lookup_dirs' is directory d, if any.
RegisteredIn(d) == {j \in Jobs : lookup_dirs[j] = d}

\* C21: whatever timestamps the clock returns to the completions, a capture
\* directory belongs to one job: no two consumers write into the same
\* directory, no consumer writes into a directory that holds the files of
\* another job or that another job has registered, and 'lookup_dirs' never
\* maps two identifiers to the same path.
C21_OneJobPerDirectory ==
  /\ \A d \in Dirs : Cardinality(RegisteredIn(d)) <= 1
  /\ \A c \in Consumers :
       WritesInto(c) # NoDir =>
         /\ RegisteredIn(WritesInto(c)) \subseteq {cs[c].uuid}
         /\ fs[WritesInto(c)].uuid \in {NoJob, cs[c].uuid}
         /\ \A c2 \in Consumers \ {c} : WritesInto(c2) # WritesInto(c)

====
